---- MODULE Spec2Model ----
(***************************************************************************)
(* Model of graphql/resolve/query.go: the store query resolver             *)
(* (queryResolver) and the remote query resolver (httpResolver).           *)
(*                                                                         *)
(* One resolver is built by NewQueryResolver or NewHTTPResolver; the        *)
(* caller then runs Resolve calls on it, possibly concurrently.  A call    *)
(* advances from one blocking point to the next: each action is the code   *)
(* that runs between two blocking collaborator calls.                      *)
(***************************************************************************)
EXTENDS Integers, Sequences, FiniteSets, TLC

\* ------------------------------------------------------------------ bounds
\* Number of Resolve calls the caller runs, concurrently, on the resolver.
NumCalls == 1
\* Longest HTTP response body, in bytes.
MaxBodyLen == 2

Calls == 1..NumCalls

\* ------------------------------------------------------------------ values
\* A []byte is nil or a (possibly empty) sequence of bytes.
NilBytes == [isNil |-> TRUE, data |-> <<>>]
Bytes(s) == [isNil |-> FALSE, data |-> s]

\* An error is nil or a chain of messages, outermost context first.  The
\* chain stands for the text "context: cause" of the wrapped error.
NilErr == <<>>
NewErr(msg) == <<[format |-> msg, args |-> <<>>]>>

\* The nil *gql.GraphQuery and a non-nil one.
NilQuery == "nil"
GraphQueries == {NilQuery, "Q"}

\* context.Canceled, as returned by a step that observes a canceled ctx.
ContextCanceled == NewErr("context canceled")

\* The n-th byte of every response body: "o", "k", "o", ...
BodyByte(i) == IF i % 2 = 1 THEN "o" ELSE "k"
BodyOfLen(n) == [i \in 1..n |-> BodyByte(i)]

\* schema.Query values: the field's response name and what its HTTPResolver()
\* accessor returns (a descriptor, or an error).
NoConfig == [Method |-> "", URL |-> "", Body |-> ""]
Fields ==
    { [name |-> "F", hrc |-> [Method |-> "GET", URL |-> "http://svc/f", Body |-> ""],
       hrcErr |-> NilErr],
      [name |-> "G", hrc |-> NoConfig, hrcErr |-> NewErr("no custom directive")],
      [name |-> "H", hrc |-> [Method |-> "POST", URL |-> ":bad", Body |-> "{}"],
       hrcErr |-> NilErr] }
NoField == [name |-> "", hrc |-> NoConfig, hrcErr |-> NilErr]

ResponseName(query) == query.name

\* query.HTTPResolver()
HTTPResolver(query) == <<query.hrc, query.hrcErr>>

\* schema.GQLWrapf(err, format, args...): nil stays nil, otherwise the error is
\* wrapped with the formatted context.
GQLWrapf(err, format, args) ==
    IF err = NilErr THEN NilErr
    ELSE <<[format |-> format, args |-> args]>> \o err

\* ------------------------------------------------------------ collaborators
\* The canonical adapters, and a caller-supplied function ("func") whose
\* results the resolver does not control.
NoOpQueryRewrite == [kind |-> "NoOpQueryRewrite"]
FuncRewrite == [kind |-> "func"]
NoOpQueryExecution == [kind |-> "NoOpQueryExecution", q |-> NoField]
introspectionExecution(q) == [kind |-> "introspectionExecution", q |-> q]
FuncExecution == [kind |-> "func", q |-> NoField]

\* schema.Introspect(q): the answer depends on the field only.
Introspect(q) == <<Bytes(<<"schema", ResponseName(q)>>), NilErr>>

\* QueryRewriter.Rewrite(ctx, q): the (dgQuery, err) pairs it may return.
Rewrite(qr, done, q) ==
    IF qr.kind = "NoOpQueryRewrite" THEN {<<NilQuery, NilErr>>}
    ELSE (GraphQueries \X {NilErr, NewErr("rewrite error")})
         \cup (IF done THEN {<<NilQuery, ContextCanceled>>} ELSE {})

\* Variant: the introspection executor answers only a non-nil native query.
Query_introspectsNonNilOnly(qe, done, dgQuery) ==
    CASE qe.kind = "NoOpQueryExecution" -> {<<NilBytes, NilErr>>}
      [] qe.kind = "introspectionExecution" ->
           IF dgQuery = NilQuery THEN {<<NilBytes, NilErr>>} ELSE {Introspect(qe.q)}
      [] OTHER -> ({NilBytes, Bytes(<<"o", "k">>)} \X {NilErr, NewErr("execute error")})
                  \cup (IF done THEN {<<NilBytes, ContextCanceled>>} ELSE {})

\* QueryExecutor.Query(ctx, query): the (bytes, err) pairs it may return.
Query(qe, done, dgQuery) ==
    CASE qe.kind = "NoOpQueryExecution" -> {<<NilBytes, NilErr>>}
      [] qe.kind = "introspectionExecution" -> {Introspect(qe.q)}
      [] OTHER -> ({NilBytes, Bytes(<<"o", "k">>)} \X {NilErr, NewErr("execute error")})
                  \cup (IF done THEN {<<NilBytes, ContextCanceled>>} ELSE {})

\* ResultCompleter.Complete(ctx, field, result, err): the (payload, err) pairs
\* it may return.  "echo" returns its input, "errNull" maps any error to a nil
\* payload and passes the error through, "opaque" returns anything.
Complete(rc, query, result, e) ==
    CASE rc = "echo" -> {<<result, e>>}
      [] rc = "errNull" -> {IF e # NilErr THEN <<NilBytes, e>> ELSE <<result, NilErr>>}
      [] OTHER -> {NilBytes, Bytes(<<"d">>)} \X {NilErr, NewErr("completion error")}

\* A response body: its bytes, and the number of bytes after which reading
\* fails (-1: reading reaches EOF).
NoBody == [data |-> <<>>, failAt |-> -1]
ResponseBodies ==
    UNION { { [data |-> BodyOfLen(n), failAt |-> k] : k \in -1..n } : n \in 0..MaxBodyLen }

\* http.NewRequest(method, url, body): fails on an invalid method or a URL
\* that does not parse; the request carries context.Background().
validMethod(m) == m \in {"", "GET", "POST"}
urlParses(u) == u # ":bad"
NoRequest == [Method |-> "", URL |-> "", Body |-> "", ctx |-> "none"]
NewRequest(method, url, body) ==
    IF ~validMethod(method) THEN <<NoRequest, NewErr("invalid method")>>
    ELSE IF ~urlParses(url) THEN <<NoRequest, NewErr("parse url")>>
    ELSE <<[Method |-> IF method = "" THEN "GET" ELSE method, URL |-> url,
            Body |-> body, ctx |-> "Background"], NilErr>>

\* http.Client.Do(req): a transport error, or a response.  A request that
\* carries a canceled context fails with that context's error.
Do(reqCtx, done) ==
    { <<NoBody, FALSE, NewErr("transport error")>> }
    \cup { <<b, TRUE, NilErr>> : b \in ResponseBodies }
    \cup (IF reqCtx = "ctx" /\ done THEN {<<NoBody, FALSE, ContextCanceled>>} ELSE {})

\* Variant: a single Read of one byte instead of reading to EOF.
ReadAll_singleRead(body) ==
    IF body.failAt = 0 THEN <<Bytes(<<>>), NewErr("read error")>>
    ELSE IF Len(body.data) = 0 THEN <<Bytes(<<>>), NilErr>>
    ELSE <<Bytes(<<body.data[1]>>), NilErr>>

\* ioutil.ReadAll(body): reads byte after byte until EOF or a read error and
\* returns what was read so far; the slice it returns is never nil.
RECURSIVE readFrom(_, _, _)
readFrom(body, pos, acc) ==
    IF pos = body.failAt THEN <<Bytes(acc), NewErr("read error")>>
    ELSE IF pos = Len(body.data) THEN <<Bytes(acc), NilErr>>
    ELSE readFrom(body, pos + 1, Append(acc, body.data[pos + 1]))
ReadAll(body) == readFrom(body, 0, <<>>)

\* ---------------------------------------------------------------- resolvers
NewQueryResolver(qr, qe, rc) ==
    [kind |-> "queryResolver", Client |-> "none",
     queryRewriter |-> qr, queryExecutor |-> qe, resultCompleter |-> rc]
NewHTTPResolver(hc, qr, qe, rc) ==
    [kind |-> "httpResolver", Client |-> hc,
     queryRewriter |-> qr, queryExecutor |-> qe, resultCompleter |-> rc]

Completers == {"echo", "errNull", "opaque"}
\* The resolvers a caller builds.
Resolvers ==
    { NewQueryResolver(FuncRewrite, FuncExecution, rc) : rc \in Completers }
    \cup { NewQueryResolver(NoOpQueryRewrite, NoOpQueryExecution, "echo") }
    \cup { NewQueryResolver(NoOpQueryRewrite, introspectionExecution(f), "echo") : f \in Fields }
    \cup { NewQueryResolver(FuncRewrite, introspectionExecution(f), "echo") : f \in Fields }
    \cup { NewHTTPResolver("hc", FuncRewrite, FuncExecution, rc) : rc \in Completers }
    \cup { NewHTTPResolver("hc", NoOpQueryRewrite, NoOpQueryExecution, "echo") }

\* -------------------------------------------------------------------- state
VARIABLES
    resolver,   \* the resolver under test (its fields)
    pc,         \* per call: where the call is blocked
    query,      \* per call: the schema.Query argument of Resolve
    ctxDone,    \* per call: the caller's ctx is canceled or past its deadline
    stepCtx,    \* per call: the context handed to the step the call awaits
    dgQuery,    \* per call: the native query handed to the executor
    resp,       \* per call: the HTTP response body being read
    body,       \* per call: state of the response body (acquired, closes)
    res,        \* per call: Resolve's res, the completer's input bytes
    err,        \* per call: Resolve's err, the completer's input error
    ret,        \* per call: the *Resolved returned, or NoResolved
    span,       \* per call: the span timer of the call
    log,        \* per call: the collaborator calls and returns, in order
    got         \* per call: what the collaborators returned (history)

vars == <<resolver, pc, query, ctxDone, stepCtx, dgQuery, resp, body, res, err,
          ret, span, log, got>>

\* What the collaborators of a call returned: the stage that failed ("none" if
\* none did) and its error, the native query of the rewriter, the bytes of the
\* executor or of the response body (and after how many of them reading the
\* body fails, -1 if it does not), and the completer's (payload, err).
NoneGot == [failed |-> "none", e |-> NilErr, dgQ |-> NilQuery, raw |-> NilBytes,
            failAt |-> -1, completed |-> <<NilBytes, NilErr>>]

NoResolved == [null |-> TRUE, Data |-> NilBytes, Err |-> NilErr]
Resolved(data, e) == [null |-> FALSE, Data |-> data, Err |-> e]

NoSpan == [name |-> "", starts |-> 0, stops |-> 0]
\* x.SpanTimer(span, name) starts a timer and returns the function stopping it.
SpanTimer(sp, name) == [sp EXCEPT !.name = name, !.starts = @ + 1]
stop(sp) == [sp EXCEPT !.stops = @ + 1]

NoResponse == [acquired |-> FALSE, closes |-> 0, deferred |-> FALSE]

Init ==
    /\ resolver \in Resolvers
    /\ pc = [c \in Calls |-> "idle"]
    /\ query = [c \in Calls |-> NoField]
    /\ ctxDone = [c \in Calls |-> FALSE]
    /\ stepCtx = [c \in Calls |-> "none"]
    /\ dgQuery = [c \in Calls |-> NilQuery]
    /\ resp = [c \in Calls |-> NoBody]
    /\ body = [c \in Calls |-> NoResponse]
    /\ res = [c \in Calls |-> NilBytes]
    /\ err = [c \in Calls |-> NilErr]
    /\ ret = [c \in Calls |-> NoResolved]
    /\ span = [c \in Calls |-> NoSpan]
    /\ log = [c \in Calls |-> <<>>]
    /\ got = [c \in Calls |-> NoneGot]

\* ------------------------------------------------------- queryResolver code
\* Variant: a rewrite error does not end rewriteAndExecute; the executor runs.
rewriteAndExecute_afterRewrite_noReturn(q, dgQ, e) ==
    [returned |-> FALSE, res |-> NilBytes, err |-> NilErr, dgQuery |-> dgQ]

\* Variant: a nil native query is refused as an error instead of executed.
rewriteAndExecute_afterRewrite_nilQueryIsError(q, dgQ, e) ==
    IF e # NilErr \/ dgQ = NilQuery
    THEN [returned |-> TRUE, res |-> NilBytes,
          err |-> GQLWrapf(IF e # NilErr THEN e ELSE NewErr("nil query"),
                           "couldn't rewrite query %s", <<ResponseName(q)>>),
          dgQuery |-> NilQuery]
    ELSE [returned |-> FALSE, res |-> NilBytes, err |-> NilErr, dgQuery |-> dgQ]

\* Variant: the executor is handed a fresh empty query, not the rewriter's.
rewriteAndExecute_afterRewrite_dropsQuery(q, dgQ, e) ==
    IF e # NilErr
    THEN [returned |-> TRUE, res |-> NilBytes,
          err |-> GQLWrapf(e, "couldn't rewrite query %s", <<ResponseName(q)>>),
          dgQuery |-> NilQuery]
    ELSE [returned |-> FALSE, res |-> NilBytes, err |-> NilErr, dgQuery |-> NilQuery]

\* rewriteAndExecute, from the return of Rewrite to the call of Query: a
\* rewrite error is wrapped and returned, otherwise dgQuery goes to the executor.
rewriteAndExecute_afterRewrite(q, dgQ, e) ==
    IF e # NilErr
    THEN [returned |-> TRUE, res |-> NilBytes,
          err |-> GQLWrapf(e, "couldn't rewrite query %s", <<ResponseName(q)>>),
          dgQuery |-> NilQuery]
    ELSE [returned |-> FALSE, res |-> NilBytes, err |-> NilErr, dgQuery |-> dgQ]

\* Variant: on an execute error the executor's bytes are returned with it.
rewriteAndExecute_afterQuery_keepsBytes(r, e) ==
    IF e # NilErr
    THEN <<r, GQLWrapf(e, "Dgraph query failed", <<>>)>>
    ELSE <<r, NilErr>>

\* rewriteAndExecute, from the return of Query to its own return.
rewriteAndExecute_afterQuery(r, e) ==
    IF e # NilErr
    THEN <<NilBytes, GQLWrapf(e, "Dgraph query failed", <<>>)>>
    ELSE <<r, NilErr>>

\* Variant: the executor is started with a nil query before the rewriter
\* has returned.
queryResolver_Resolve_speculative(c, q) ==
    /\ resolver.kind = "queryResolver"
    /\ pc[c] = "idle"
    /\ query' = [query EXCEPT ![c] = q]
    /\ span' = [span EXCEPT ![c] = SpanTimer(@, "resolveQuery")]
    /\ stepCtx' = [stepCtx EXCEPT ![c] = "ctx"]
    /\ pc' = [pc EXCEPT ![c] = "Rewrite"]
    /\ log' = [log EXCEPT ![c] = @ \o <<"SpanTimer", "Rewrite", "Query">>]
    /\ UNCHANGED <<resolver, ctxDone, dgQuery, resp, body, res, err, ret, got>>

\* Resolve is entered: the span timer starts and the rewriter is called.
queryResolver_Resolve(c, q) ==
    /\ resolver.kind = "queryResolver"
    /\ pc[c] = "idle"
    /\ query' = [query EXCEPT ![c] = q]
    /\ span' = [span EXCEPT ![c] = SpanTimer(@, "resolveQuery")]
    /\ stepCtx' = [stepCtx EXCEPT ![c] = "ctx"]
    /\ pc' = [pc EXCEPT ![c] = "Rewrite"]
    /\ log' = [log EXCEPT ![c] = @ \o <<"SpanTimer", "Rewrite">>]
    /\ UNCHANGED <<resolver, ctxDone, dgQuery, resp, body, res, err, ret, got>>

\* The rewriter returns: the executor is called, or (on error) the completer.
queryResolver_Rewrite(c) ==
    /\ resolver.kind = "queryResolver"
    /\ pc[c] = "Rewrite"
    /\ \E out \in Rewrite(resolver.queryRewriter, ctxDone[c], query[c]) :
         LET r == rewriteAndExecute_afterRewrite(query[c], out[1], out[2]) IN
           /\ dgQuery' = [dgQuery EXCEPT ![c] = r.dgQuery]
           /\ res' = [res EXCEPT ![c] = r.res]
           /\ err' = [err EXCEPT ![c] = r.err]
           /\ pc' = [pc EXCEPT ![c] = IF r.returned THEN "Complete" ELSE "Query"]
           /\ log' = [log EXCEPT ![c] = @ \o <<"RewriteRet",
                                              IF r.returned THEN "Complete" ELSE "Query">>]
           /\ got' = [got EXCEPT ![c].dgQ = out[1], ![c].e = out[2],
                                  ![c].failed = IF out[2] # NilErr THEN "Rewrite" ELSE @]
    /\ stepCtx' = [stepCtx EXCEPT ![c] = "ctx"]
    /\ UNCHANGED <<resolver, query, ctxDone, resp, body, ret, span>>

\* Variant: the executor's outcome is kept in a buffer shared by all calls
\* on the resolver.
queryResolver_Query_sharedResult(c) ==
    /\ resolver.kind = "queryResolver"
    /\ pc[c] = "Query"
    /\ \E out \in Query(resolver.queryExecutor, ctxDone[c], dgQuery[c]) :
         LET r == rewriteAndExecute_afterQuery(out[1], out[2]) IN
           /\ res' = [d \in DOMAIN res |-> r[1]]
           /\ err' = [d \in DOMAIN err |-> r[2]]
           /\ got' = [got EXCEPT ![c].raw = out[1], ![c].e = out[2],
                                  ![c].failed = IF out[2] # NilErr THEN "Query" ELSE @]
    /\ pc' = [pc EXCEPT ![c] = "Complete"]
    /\ log' = [log EXCEPT ![c] = @ \o <<"QueryRet", "Complete">>]
    /\ stepCtx' = [stepCtx EXCEPT ![c] = "ctx"]
    /\ UNCHANGED <<resolver, query, ctxDone, dgQuery, resp, body, ret, span>>

\* Variant: a failed execute is retried once before the error is returned.
queryResolver_Query_retry(c) ==
    /\ resolver.kind = "queryResolver"
    /\ pc[c] = "Query"
    /\ \E out \in Query(resolver.queryExecutor, ctxDone[c], dgQuery[c]) :
         LET r == rewriteAndExecute_afterQuery(out[1], out[2])
             again == out[2] # NilErr /\ ~(\E i \in DOMAIN log[c] : log[c][i] = "QueryRet") IN
           /\ res' = [res EXCEPT ![c] = IF again THEN @ ELSE r[1]]
           /\ err' = [err EXCEPT ![c] = IF again THEN @ ELSE r[2]]
           /\ got' = [got EXCEPT ![c].raw = out[1], ![c].e = out[2],
                                  ![c].failed = IF out[2] # NilErr /\ ~again THEN "Query" ELSE @]
           /\ pc' = [pc EXCEPT ![c] = IF again THEN "Query" ELSE "Complete"]
           /\ log' = [log EXCEPT ![c] = @ \o <<"QueryRet", IF again THEN "Query" ELSE "Complete">>]
    /\ stepCtx' = [stepCtx EXCEPT ![c] = "ctx"]
    /\ UNCHANGED <<resolver, query, ctxDone, dgQuery, resp, body, ret, span>>

\* The executor returns: the completer is called with the outcome.
queryResolver_Query(c) ==
    /\ resolver.kind = "queryResolver"
    /\ pc[c] = "Query"
    /\ \E out \in Query(resolver.queryExecutor, ctxDone[c], dgQuery[c]) :
         LET r == rewriteAndExecute_afterQuery(out[1], out[2]) IN
           /\ res' = [res EXCEPT ![c] = r[1]]
           /\ err' = [err EXCEPT ![c] = r[2]]
           /\ got' = [got EXCEPT ![c].raw = out[1], ![c].e = out[2],
                                  ![c].failed = IF out[2] # NilErr THEN "Query" ELSE @]
    /\ pc' = [pc EXCEPT ![c] = "Complete"]
    /\ log' = [log EXCEPT ![c] = @ \o <<"QueryRet", "Complete">>]
    /\ stepCtx' = [stepCtx EXCEPT ![c] = "ctx"]
    /\ UNCHANGED <<resolver, query, ctxDone, dgQuery, resp, body, ret, span>>

\* Variant: Resolve returns nil when the completer returns an error.
queryResolver_Complete_nilOnErr(c) ==
    /\ resolver.kind = "queryResolver"
    /\ pc[c] = "Complete"
    /\ \E out \in Complete(resolver.resultCompleter, query[c], res[c], err[c]) :
         /\ ret' = [ret EXCEPT ![c] = IF out[2] # NilErr THEN NoResolved
                                      ELSE Resolved(out[1], out[2])]
         /\ got' = [got EXCEPT ![c].completed = out]
    /\ span' = [span EXCEPT ![c] = stop(@)]
    /\ pc' = [pc EXCEPT ![c] = "done"]
    /\ stepCtx' = [stepCtx EXCEPT ![c] = "none"]
    /\ log' = [log EXCEPT ![c] = @ \o <<"CompleteRet", "stop">>]
    /\ UNCHANGED <<resolver, query, ctxDone, dgQuery, resp, body, res, err>>

\* Variant: Resolve returns the upstream error when there is one, whatever
\* the completer returned.
queryResolver_Complete_keepsUpstreamErr(c) ==
    /\ resolver.kind = "queryResolver"
    /\ pc[c] = "Complete"
    /\ \E out \in Complete(resolver.resultCompleter, query[c], res[c], err[c]) :
         /\ ret' = [ret EXCEPT ![c] = Resolved(out[1], IF err[c] # NilErr THEN err[c]
                                                       ELSE out[2])]
         /\ got' = [got EXCEPT ![c].completed = out]
    /\ span' = [span EXCEPT ![c] = stop(@)]
    /\ pc' = [pc EXCEPT ![c] = "done"]
    /\ stepCtx' = [stepCtx EXCEPT ![c] = "none"]
    /\ log' = [log EXCEPT ![c] = @ \o <<"CompleteRet", "stop">>]
    /\ UNCHANGED <<resolver, query, ctxDone, dgQuery, resp, body, res, err>>

\* The completer returns: Resolve returns &Resolved{completed, err} and the
\* deferred stop() of the span timer runs.  res and err keep the completer's
\* input; the err the code reassigns is ret.Err.
queryResolver_Complete(c) ==
    /\ resolver.kind = "queryResolver"
    /\ pc[c] = "Complete"
    /\ \E out \in Complete(resolver.resultCompleter, query[c], res[c], err[c]) :
         /\ ret' = [ret EXCEPT ![c] = Resolved(out[1], out[2])]
         /\ got' = [got EXCEPT ![c].completed = out]
    /\ span' = [span EXCEPT ![c] = stop(@)]
    /\ pc' = [pc EXCEPT ![c] = "done"]
    /\ stepCtx' = [stepCtx EXCEPT ![c] = "none"]
    /\ log' = [log EXCEPT ![c] = @ \o <<"CompleteRet", "stop">>]
    /\ UNCHANGED <<resolver, query, ctxDone, dgQuery, resp, body, res, err>>

\* -------------------------------------------------------- httpResolver code
\* Variant: the error of HTTPResolver() is ignored and the request is built
\* from the descriptor it returned.
rewriteAndExecute_request_ignoresErr(q) ==
    LET h == HTTPResolver(q)
        r == NewRequest(h[1].Method, h[1].URL, h[1].Body) IN
      IF r[2] # NilErr
      THEN [returned |-> TRUE, res |-> NilBytes, err |-> r[2], reqCtx |-> "none",
            calls |-> <<"HTTPResolver", "NewRequest">>]
      ELSE [returned |-> FALSE, res |-> NilBytes, err |-> NilErr,
            reqCtx |-> r[1].ctx,
            calls |-> <<"HTTPResolver", "NewRequest">>]

\* rewriteAndExecute up to the call of hr.Do: the descriptor is read from the
\* field and the request is built; either failure returns (nil, err).
rewriteAndExecute_request(q) ==
    LET h == HTTPResolver(q) IN
      IF h[2] # NilErr
      THEN [returned |-> TRUE, res |-> NilBytes, err |-> h[2], reqCtx |-> "none",
            calls |-> <<"HTTPResolver">>]
      ELSE LET r == NewRequest(h[1].Method, h[1].URL, h[1].Body) IN
             IF r[2] # NilErr
             THEN [returned |-> TRUE, res |-> NilBytes, err |-> r[2], reqCtx |-> "none",
                   calls |-> <<"HTTPResolver", "NewRequest">>]
             ELSE [returned |-> FALSE, res |-> NilBytes, err |-> NilErr,
                   reqCtx |-> r[1].ctx,
                   calls |-> <<"HTTPResolver", "NewRequest">>]

\* Variant: a failure before the request is issued is returned to the caller
\* at once, without the completer.
httpResolver_Resolve_earlyReturn(c, q) ==
    /\ resolver.kind = "httpResolver"
    /\ pc[c] = "idle"
    /\ query' = [query EXCEPT ![c] = q]
    /\ LET r == rewriteAndExecute_request(q) IN
         /\ res' = [res EXCEPT ![c] = r.res]
         /\ err' = [err EXCEPT ![c] = r.err]
         /\ stepCtx' = [stepCtx EXCEPT ![c] = IF r.returned THEN "none" ELSE r.reqCtx]
         /\ pc' = [pc EXCEPT ![c] = IF r.returned THEN "done" ELSE "Do"]
         /\ ret' = [ret EXCEPT ![c] = IF r.returned THEN Resolved(r.res, r.err) ELSE @]
         /\ span' = [span EXCEPT ![c] = IF r.returned
                                        THEN stop(SpanTimer(@, "resolveHTTPQuery"))
                                        ELSE SpanTimer(@, "resolveHTTPQuery")]
         /\ log' = [log EXCEPT ![c] = @ \o <<"SpanTimer">> \o r.calls
                                        \o <<IF r.returned THEN "stop" ELSE "Do">>]
    /\ got' = [got EXCEPT ![c].e = IF HTTPResolver(q)[2] # NilErr THEN HTTPResolver(q)[2]
                                    ELSE NewRequest(q.hrc.Method, q.hrc.URL, q.hrc.Body)[2],
                           ![c].failed =
                               IF HTTPResolver(q)[2] # NilErr THEN "HTTPResolver"
                               ELSE IF NewRequest(q.hrc.Method, q.hrc.URL, q.hrc.Body)[2] # NilErr
                                    THEN "NewRequest" ELSE @]
    /\ UNCHANGED <<resolver, ctxDone, dgQuery, resp, body>>

\* Variant: the resolver's rewriter is called before the request is built.
httpResolver_Resolve_rewritesFirst(c, q) ==
    /\ resolver.kind = "httpResolver"
    /\ pc[c] = "idle"
    /\ query' = [query EXCEPT ![c] = q]
    /\ span' = [span EXCEPT ![c] = SpanTimer(@, "resolveHTTPQuery")]
    /\ LET r == rewriteAndExecute_request(q) IN
         /\ res' = [res EXCEPT ![c] = r.res]
         /\ err' = [err EXCEPT ![c] = r.err]
         /\ stepCtx' = [stepCtx EXCEPT ![c] = IF r.returned THEN "ctx" ELSE r.reqCtx]
         /\ pc' = [pc EXCEPT ![c] = IF r.returned THEN "Complete" ELSE "Do"]
         /\ log' = [log EXCEPT ![c] = @ \o <<"SpanTimer", "Rewrite", "RewriteRet">> \o r.calls
                                        \o <<IF r.returned THEN "Complete" ELSE "Do">>]
    /\ got' = [got EXCEPT ![c].e = IF HTTPResolver(q)[2] # NilErr THEN HTTPResolver(q)[2]
                                    ELSE NewRequest(q.hrc.Method, q.hrc.URL, q.hrc.Body)[2],
                           ![c].failed =
                               IF HTTPResolver(q)[2] # NilErr THEN "HTTPResolver"
                               ELSE IF NewRequest(q.hrc.Method, q.hrc.URL, q.hrc.Body)[2] # NilErr
                                    THEN "NewRequest" ELSE @]
    /\ UNCHANGED <<resolver, ctxDone, dgQuery, resp, body, ret>>

\* Resolve is entered: the span timer starts, the request is built and handed
\* to the HTTP client, or (on error) the completer is called.
httpResolver_Resolve(c, q) ==
    /\ resolver.kind = "httpResolver"
    /\ pc[c] = "idle"
    /\ query' = [query EXCEPT ![c] = q]
    /\ span' = [span EXCEPT ![c] = SpanTimer(@, "resolveHTTPQuery")]
    /\ LET r == rewriteAndExecute_request(q) IN
         /\ res' = [res EXCEPT ![c] = r.res]
         /\ err' = [err EXCEPT ![c] = r.err]
         /\ stepCtx' = [stepCtx EXCEPT ![c] = IF r.returned THEN "ctx" ELSE r.reqCtx]
         /\ pc' = [pc EXCEPT ![c] = IF r.returned THEN "Complete" ELSE "Do"]
         /\ log' = [log EXCEPT ![c] = @ \o <<"SpanTimer">> \o r.calls
                                        \o <<IF r.returned THEN "Complete" ELSE "Do">>]
    /\ got' = [got EXCEPT ![c].e = IF HTTPResolver(q)[2] # NilErr THEN HTTPResolver(q)[2]
                                    ELSE NewRequest(q.hrc.Method, q.hrc.URL, q.hrc.Body)[2],
                           ![c].failed =
                               IF HTTPResolver(q)[2] # NilErr THEN "HTTPResolver"
                               ELSE IF NewRequest(q.hrc.Method, q.hrc.URL, q.hrc.Body)[2] # NilErr
                                    THEN "NewRequest" ELSE @]
    /\ UNCHANGED <<resolver, ctxDone, dgQuery, resp, body, ret>>

\* Variant: the error of hr.Do is not checked before the body is read.
rewriteAndExecute_afterDo_readsAnyway(b, ok, e) ==
    [returned |-> FALSE, res |-> NilBytes, err |-> NilErr, deferClose |-> TRUE]

\* rewriteAndExecute after hr.Do returned: a transport error is returned as
\* (nil, err); otherwise the body's Close is deferred and the body is read.
rewriteAndExecute_afterDo(b, ok, e) ==
    IF e # NilErr
    THEN [returned |-> TRUE, res |-> NilBytes, err |-> e, deferClose |-> FALSE]
    ELSE [returned |-> FALSE, res |-> NilBytes, err |-> NilErr, deferClose |-> TRUE]

\* The HTTP client returns.
httpResolver_Do(c) ==
    /\ resolver.kind = "httpResolver"
    /\ pc[c] = "Do"
    /\ \E out \in Do(stepCtx[c], ctxDone[c]) :
         LET r == rewriteAndExecute_afterDo(out[1], out[2], out[3]) IN
           /\ resp' = [resp EXCEPT ![c] = out[1]]
           /\ body' = [body EXCEPT ![c] = [acquired |-> out[2], closes |-> 0,
                                           deferred |-> r.deferClose]]
           /\ res' = [res EXCEPT ![c] = r.res]
           /\ err' = [err EXCEPT ![c] = r.err]
           /\ stepCtx' = [stepCtx EXCEPT ![c] = IF r.returned THEN "ctx" ELSE @]
           /\ pc' = [pc EXCEPT ![c] = IF r.returned THEN "Complete" ELSE "ReadAll"]
           /\ log' = [log EXCEPT ![c] = @ \o <<"DoRet",
                                              IF r.returned THEN "Complete" ELSE "ReadAll">>]
           /\ got' = [got EXCEPT ![c].raw = IF out[2] THEN Bytes(out[1].data) ELSE @,
                                  ![c].failAt = out[1].failAt,
                                  ![c].e = out[3],
                                  ![c].failed = IF out[3] # NilErr THEN "Do" ELSE @]
    /\ UNCHANGED <<resolver, query, ctxDone, dgQuery, ret, span>>

\* The deferred calls of rewriteAndExecute run as it returns.
runDeferred(bd) ==
    IF bd.deferred THEN [bd EXCEPT !.closes = @ + 1, !.deferred = FALSE] ELSE bd

\* Variant: the body is closed only after a read that succeeded.
httpResolver_ReadAll_leakOnError(c) ==
    /\ resolver.kind = "httpResolver"
    /\ pc[c] = "ReadAll"
    /\ LET r == ReadAll(resp[c]) IN
         /\ res' = [res EXCEPT ![c] = r[1]]
         /\ err' = [err EXCEPT ![c] = r[2]]
         /\ got' = [got EXCEPT ![c].e = IF resp[c].failAt >= 0 THEN NewErr("read error") ELSE @,
                                ![c].failed = IF resp[c].failAt >= 0 THEN "ReadAll" ELSE @]
         /\ body' = [body EXCEPT ![c] = IF r[2] = NilErr THEN runDeferred(@) ELSE @]
    /\ resp' = [resp EXCEPT ![c] = NoBody]
    /\ stepCtx' = [stepCtx EXCEPT ![c] = "ctx"]
    /\ pc' = [pc EXCEPT ![c] = "Complete"]
    /\ log' = [log EXCEPT ![c] = @ \o <<"ReadAllRet">>
                                     \o (IF body'[c].closes > body[c].closes
                                         THEN <<"Close">> ELSE <<>>) \o <<"Complete">>]
    /\ UNCHANGED <<resolver, query, ctxDone, dgQuery, ret, span>>

\* Variant: a read error is returned with nil bytes, as the store path does.
httpResolver_ReadAll_nilOnError(c) ==
    /\ resolver.kind = "httpResolver"
    /\ pc[c] = "ReadAll"
    /\ LET r == ReadAll(resp[c]) IN
         /\ res' = [res EXCEPT ![c] = IF r[2] # NilErr THEN NilBytes ELSE r[1]]
         /\ err' = [err EXCEPT ![c] = r[2]]
         /\ got' = [got EXCEPT ![c].e = IF resp[c].failAt >= 0 THEN NewErr("read error") ELSE @,
                                ![c].failed = IF resp[c].failAt >= 0 THEN "ReadAll" ELSE @]
    /\ body' = [body EXCEPT ![c] = runDeferred(@)]
    /\ resp' = [resp EXCEPT ![c] = NoBody]
    /\ stepCtx' = [stepCtx EXCEPT ![c] = "ctx"]
    /\ pc' = [pc EXCEPT ![c] = "Complete"]
    /\ log' = [log EXCEPT ![c] = @ \o <<"ReadAllRet">>
                                     \o (IF body'[c].closes > body[c].closes
                                         THEN <<"Close">> ELSE <<>>) \o <<"Complete">>]
    /\ UNCHANGED <<resolver, query, ctxDone, dgQuery, ret, span>>

\* ReadAll returns (bytes read, err); rewriteAndExecute returns them, the
\* deferred Close runs, and the completer is called.
httpResolver_ReadAll(c) ==
    /\ resolver.kind = "httpResolver"
    /\ pc[c] = "ReadAll"
    /\ LET r == ReadAll(resp[c]) IN
         /\ res' = [res EXCEPT ![c] = r[1]]
         /\ err' = [err EXCEPT ![c] = r[2]]
         /\ got' = [got EXCEPT ![c].e = IF resp[c].failAt >= 0 THEN NewErr("read error") ELSE @,
                                ![c].failed = IF resp[c].failAt >= 0 THEN "ReadAll" ELSE @]
    /\ body' = [body EXCEPT ![c] = runDeferred(@)]
    /\ resp' = [resp EXCEPT ![c] = NoBody]
    /\ stepCtx' = [stepCtx EXCEPT ![c] = "ctx"]
    /\ pc' = [pc EXCEPT ![c] = "Complete"]
    /\ log' = [log EXCEPT ![c] = @ \o <<"ReadAllRet">>
                                     \o (IF body'[c].closes > body[c].closes
                                         THEN <<"Close">> ELSE <<>>) \o <<"Complete">>]
    /\ UNCHANGED <<resolver, query, ctxDone, dgQuery, ret, span>>

\* Variant: the span timer is stopped by hand on the success path only.
httpResolver_Complete_stopOnSuccess(c) ==
    /\ resolver.kind = "httpResolver"
    /\ pc[c] = "Complete"
    /\ \E out \in Complete(resolver.resultCompleter, query[c], res[c], err[c]) :
         /\ ret' = [ret EXCEPT ![c] = Resolved(out[1], out[2])]
         /\ got' = [got EXCEPT ![c].completed = out]
         /\ span' = [span EXCEPT ![c] = IF out[2] = NilErr THEN stop(@) ELSE @]
         /\ log' = [log EXCEPT ![c] = @ \o <<"CompleteRet">>
                                        \o (IF out[2] = NilErr THEN <<"stop">> ELSE <<>>)]
    /\ pc' = [pc EXCEPT ![c] = "done"]
    /\ stepCtx' = [stepCtx EXCEPT ![c] = "none"]
    /\ UNCHANGED <<resolver, query, ctxDone, dgQuery, resp, body, res, err>>

\* The completer returns: Resolve returns &Resolved{completed, err} and the
\* deferred stop() of the span timer runs.
httpResolver_Complete(c) ==
    /\ resolver.kind = "httpResolver"
    /\ pc[c] = "Complete"
    /\ \E out \in Complete(resolver.resultCompleter, query[c], res[c], err[c]) :
         /\ ret' = [ret EXCEPT ![c] = Resolved(out[1], out[2])]
         /\ got' = [got EXCEPT ![c].completed = out]
    /\ span' = [span EXCEPT ![c] = stop(@)]
    /\ pc' = [pc EXCEPT ![c] = "done"]
    /\ stepCtx' = [stepCtx EXCEPT ![c] = "none"]
    /\ log' = [log EXCEPT ![c] = @ \o <<"CompleteRet", "stop">>]
    /\ UNCHANGED <<resolver, query, ctxDone, dgQuery, resp, body, res, err>>

\* ------------------------------------------------------------------- caller
\* The steps at which a call waits for a rewrite, an execute or the network.
Blocking == {"Rewrite", "Query", "Do", "ReadAll"}

\* The caller cancels the ctx of a call (or its deadline passes) while the
\* call is blocked.
ctx_Done(c) ==
    /\ pc[c] \in Blocking
    /\ ~ctxDone[c]
    /\ ctxDone' = [ctxDone EXCEPT ![c] = TRUE]
    /\ UNCHANGED <<resolver, pc, query, stepCtx, dgQuery, resp, body, res, err,
                   ret, span, log, got>>

Next ==
    \E c \in Calls :
      \/ \E q \in Fields : queryResolver_Resolve(c, q)
      \/ queryResolver_Rewrite(c)
      \/ queryResolver_Query(c)
      \/ queryResolver_Complete(c)
      \/ \E q \in Fields : httpResolver_Resolve(c, q)
      \/ httpResolver_Do(c)
      \/ httpResolver_ReadAll(c)
      \/ httpResolver_Complete(c)
      \/ ctx_Done(c)

Spec == Init /\ [][Next]_vars

\* --------------------------------------------------------- concurrent calls
\* The caller runs one more call than in Spec, all on the same resolver and
\* interleaved in any order; the collaborators are caller-supplied functions,
\* the completer echoes, and no ctx is canceled.
ConcurrentCalls == 1..(NumCalls + 1)
ConcurrentResolvers ==
    { NewQueryResolver(FuncRewrite, FuncExecution, "echo"),
      NewHTTPResolver("hc", FuncRewrite, FuncExecution, "echo") }

InitConcurrent ==
    /\ resolver \in ConcurrentResolvers
    /\ pc = [c \in ConcurrentCalls |-> "idle"]
    /\ query = [c \in ConcurrentCalls |-> NoField]
    /\ ctxDone = [c \in ConcurrentCalls |-> FALSE]
    /\ stepCtx = [c \in ConcurrentCalls |-> "none"]
    /\ dgQuery = [c \in ConcurrentCalls |-> NilQuery]
    /\ resp = [c \in ConcurrentCalls |-> NoBody]
    /\ body = [c \in ConcurrentCalls |-> NoResponse]
    /\ res = [c \in ConcurrentCalls |-> NilBytes]
    /\ err = [c \in ConcurrentCalls |-> NilErr]
    /\ ret = [c \in ConcurrentCalls |-> NoResolved]
    /\ span = [c \in ConcurrentCalls |-> NoSpan]
    /\ log = [c \in ConcurrentCalls |-> <<>>]
    /\ got = [c \in ConcurrentCalls |-> NoneGot]

NextConcurrent ==
    \E c \in ConcurrentCalls :
      \/ \E q \in Fields : queryResolver_Resolve(c, q)
      \/ queryResolver_Rewrite(c)
      \/ queryResolver_Query(c)
      \/ queryResolver_Complete(c)
      \/ \E q \in Fields : httpResolver_Resolve(c, q)
      \/ httpResolver_Do(c)
      \/ httpResolver_ReadAll(c)
      \/ httpResolver_Complete(c)

SpecConcurrent == InitConcurrent /\ [][NextConcurrent]_vars

\* ------------------------------------------------------------------- claims
Count(lg, op) == Cardinality({i \in DOMAIN lg : lg[i] = op})
Has(lg, op) == \E i \in DOMAIN lg : lg[i] = op
\* Every op in lg comes after some earlier a.
After(lg, a, op) == \A i \in DOMAIN lg : lg[i] = op => \E j \in 1..(i - 1) : lg[j] = a
Step(c) ==
    \/ queryResolver_Rewrite(c) \/ queryResolver_Query(c) \/ queryResolver_Complete(c)
    \/ httpResolver_Do(c) \/ httpResolver_ReadAll(c) \/ httpResolver_Complete(c)
PassThrough == {"echo", "errNull"}
RewriteContext(q) == [format |-> "couldn't rewrite query %s", args |-> <<ResponseName(q)>>]
ExecuteContext == [format |-> "Dgraph query failed", args |-> <<>>]

\* C1: Resolve of either resolver always ends by returning a non-null
\* Resolved: a call that has started can always take its next step whatever
\* its collaborators returned, it has returned exactly when it is done, what it
\* returned is non-null, and the failure of a stage is not raised but handed to
\* the completer as its error (and so is in Resolved.Err when the completer
\* passes errors through).
C1_ResolveReturnsResolved ==
    \A c \in Calls :
      /\ pc[c] \in {"idle", "Rewrite", "Query", "Do", "ReadAll", "Complete", "done"}
      /\ pc[c] \notin {"idle", "done"} => ENABLED Step(c)
      /\ (pc[c] = "done") <=> ~ret[c].null
      /\ (got[c].failed # "none" /\ pc[c] \in {"Complete", "done"}) => err[c] # NilErr
      /\ (got[c].failed # "none" /\ pc[c] = "done"
            /\ resolver.resultCompleter \in PassThrough) => ret[c].Err # NilErr
C1_Witness ==
    \E c \in Calls : /\ pc[c] = "done" /\ got[c].failed = "Query"
                     /\ ~ret[c].null /\ ret[c].Err # NilErr

\* C2: in the store resolver, when the rewriter fails the executor is not
\* invoked in that call and the completer receives a nil raw result and the
\* rewriter's error wrapped with "couldn't rewrite query <field-name>".
C2_RewriteFailureSkipsExecutor ==
    \A c \in Calls :
      (resolver.kind = "queryResolver" /\ got[c].failed = "Rewrite") =>
        /\ ~Has(log[c], "Query")
        /\ pc[c] \in {"Complete", "done"}
        /\ Has(log[c], "Complete")
        /\ res[c] = NilBytes
        /\ err[c] = <<RewriteContext(query[c])>> \o got[c].e
C2_Witness ==
    \E c \in Calls : /\ resolver.kind = "queryResolver" /\ got[c].failed = "Rewrite"
                     /\ got[c].dgQ # NilQuery /\ pc[c] = "done"

\* C3: in the store resolver, when the rewriter succeeds and the executor
\* fails, the completer receives a nil raw result (whatever bytes the executor
\* returned with its error) and the wrapped execute error, and the executor is
\* called only once with the rewriter's native query.
C3_ExecuteFailureGivesNilResult ==
    \A c \in Calls :
      (resolver.kind = "queryResolver" /\ got[c].failed = "Query") =>
        /\ pc[c] \in {"Complete", "done"}
        /\ Has(log[c], "Complete")
        /\ res[c] = NilBytes
        /\ err[c] = <<ExecuteContext>> \o got[c].e
        /\ Count(log[c], "Query") = 1
        /\ dgQuery[c] = got[c].dgQ
C3_Witness ==
    \E c \in Calls : /\ resolver.kind = "queryResolver" /\ got[c].failed = "Query"
                     /\ got[c].raw # NilBytes /\ got[c].dgQ # NilQuery /\ pc[c] = "done"

\* C4: in both resolvers the completer is invoked exactly once per Resolve
\* call, on every path: never twice, once a stage has failed or the pipeline
\* has finished it has been invoked, and Resolve has not returned without it.
C4_CompleterInvokedExactlyOnce ==
    \A c \in Calls :
      /\ Count(log[c], "Complete") <= 1
      /\ Count(log[c], "CompleteRet") <= Count(log[c], "Complete")
      /\ got[c].failed # "none" => Count(log[c], "Complete") = 1
      /\ pc[c] \in {"Complete", "done"} <=> Count(log[c], "Complete") = 1
      /\ (pc[c] = "done" \/ ~ret[c].null) =>
           (Count(log[c], "Complete") = 1 /\ Count(log[c], "CompleteRet") = 1)
C4_Witness ==
    \E c \in Calls : /\ resolver.kind = "httpResolver" /\ got[c].failed = "NewRequest"
                     /\ pc[c] = "done" /\ Count(log[c], "Complete") = 1

\* C5: within one Resolve of the store resolver the rewriter call precedes the
\* executor call and the completer call follows both: the executor starts only
\* after the rewriter returned, the completer only after the rewriter returned
\* and the executor returned or was skipped, and no collaborator is started
\* while another is running.
C5_RewriteThenExecuteThenComplete ==
    \A c \in Calls :
      resolver.kind = "queryResolver" =>
        LET lg == log[c] IN
          /\ After(lg, "Rewrite", "RewriteRet")
          /\ After(lg, "RewriteRet", "Query")
          /\ After(lg, "Query", "QueryRet")
          /\ After(lg, "RewriteRet", "Complete")
          /\ Has(lg, "Query") => After(lg, "QueryRet", "Complete")
          /\ pc[c] = "Rewrite" => (~Has(lg, "Query") /\ ~Has(lg, "Complete"))
          /\ pc[c] = "Query" => (Has(lg, "RewriteRet") /\ ~Has(lg, "Complete"))
          /\ pc[c] = "Complete" => (Count(lg, "Query") = Count(lg, "QueryRet"))
C5_Witness ==
    \E c \in Calls :
      /\ resolver.kind = "queryResolver" /\ pc[c] = "done"
      /\ log[c] = <<"SpanTimer", "Rewrite", "RewriteRet", "Query", "QueryRet",
                    "Complete", "CompleteRet", "stop">>

\* C6: the Resolved that Resolve returns carries the completer's payload as
\* Data and the completer's error as Err, whatever the upstream error was.  With
\* an echoing completer, a rewriter returning Q and an executor returning "ok",
\* it is {Data: "ok", Err: nil}; with a completer passing errors through and a
\* failing rewriter, Data is nil and Err contains "couldn't rewrite query F".
C6_ResolvedIsCompleterOutput ==
    \A c \in Calls :
      pc[c] = "done" =>
        /\ ret[c] = [null |-> FALSE, Data |-> got[c].completed[1],
                     Err |-> got[c].completed[2]]
        /\ (resolver.kind = "queryResolver" /\ resolver.resultCompleter = "echo"
              /\ got[c].failed = "none" /\ got[c].raw = Bytes(<<"o", "k">>)) =>
             (ret[c].Data = Bytes(<<"o", "k">>) /\ ret[c].Err = NilErr)
        /\ (resolver.kind = "queryResolver" /\ resolver.resultCompleter = "errNull"
              /\ got[c].failed = "Rewrite") =>
             /\ ret[c].Data = NilBytes
             /\ \E i \in DOMAIN ret[c].Err : ret[c].Err[i] = RewriteContext(query[c])
C6_Witness ==
    \E c \in Calls : /\ pc[c] = "done" /\ resolver.kind = "queryResolver"
                     /\ resolver.resultCompleter = "opaque"
                     /\ got[c].failed = "Rewrite" /\ err[c] # NilErr
                     /\ ret[c].Err = NilErr /\ ret[c].Data = Bytes(<<"d">>)

\* C7: in the remote resolver, when the field's HTTPResolver() fails no
\* request is built and the HTTP client is not called in that Resolve, and the
\* completer receives nil raw bytes and a non-nil error (the accessor's).
C7_DescriptorFailureIssuesNoRequest ==
    \A c \in Calls :
      (resolver.kind = "httpResolver" /\ query[c] # NoField
         /\ HTTPResolver(query[c])[2] # NilErr) =>
        /\ ~Has(log[c], "NewRequest")
        /\ ~Has(log[c], "Do")
        /\ ~body[c].acquired
        /\ pc[c] \in {"Complete", "done"}
        /\ Has(log[c], "Complete")
        /\ res[c] = NilBytes
        /\ err[c] # NilErr
        /\ err[c] = HTTPResolver(query[c])[2]
C7_Witness ==
    \E c \in Calls : /\ resolver.kind = "httpResolver" /\ got[c].failed = "HTTPResolver"
                     /\ pc[c] = "done"

\* C8: in the remote resolver, when the request succeeds (the client returned
\* a response and its body was read to the end) the completer receives exactly
\* the bytes of the response body and a nil error.
C8_CompleterGetsExactBody ==
    \A c \in Calls :
      (resolver.kind = "httpResolver" /\ Has(log[c], "ReadAllRet")
         /\ got[c].failed = "none") =>
        /\ pc[c] \in {"Complete", "done"}
        /\ res[c] = got[c].raw
        /\ ~res[c].isNil
        /\ err[c] = NilErr
C8_Witness ==
    \E c \in Calls : /\ resolver.kind = "httpResolver" /\ got[c].failed = "none"
                     /\ pc[c] = "done" /\ res[c] = Bytes(<<"o", "k">>)

\* C9: the response body is closed exactly once whenever the HTTP client
\* returned a response, on the path where reading fails too, and before the
\* completer is invoked and Resolve returns; it is never closed when no
\* response was acquired and never closed twice.
C9_BodyClosedExactlyOnce ==
    \A c \in Calls :
      /\ body[c].closes <= 1
      /\ Count(log[c], "Close") = body[c].closes
      /\ ~body[c].acquired => body[c].closes = 0
      /\ (body[c].acquired /\ pc[c] \in {"Complete", "done"}) => body[c].closes = 1
      /\ body[c].acquired <=> Has(log[c], "ReadAll")
      /\ After(log[c], "Close", "Complete") \/ ~body[c].acquired
C9_Witness ==
    \E c \in Calls : /\ pc[c] = "done" /\ body[c].acquired /\ got[c].failed = "ReadAll"
                     /\ body[c].closes = 1

\* C10: every blocking step observes the caller's ctx: whenever the ctx of a
\* call is canceled while the call waits for the rewrite, the execute or the
\* HTTP response, the step it waits for was handed that ctx and so ends with
\* the context's error.
C10_BlockingStepsObserveCtx ==
    \A c \in Calls : (pc[c] \in Blocking /\ ctxDone[c]) => stepCtx[c] = "ctx"

\* C11: every error that reaches the completer is wrapped with a stage label
\* and the response name of the field, and keeps the error of the failing
\* collaborator as its cause: the completer's error is a context naming the
\* field, followed by the collaborator's error.
C11_ErrorsWrappedWithStageAndField ==
    \A c \in Calls :
      (pc[c] \in {"Complete", "done"} /\ got[c].failed # "none") =>
        /\ Len(err[c]) = Len(got[c].e) + 1
        /\ err[c][1].args = <<ResponseName(query[c])>>
        /\ Tail(err[c]) = got[c].e

\* The event of log at which a stage's failure became known.
FailureEvent(stage) ==
    CASE stage = "Rewrite" -> "RewriteRet"
      [] stage = "Query" -> "QueryRet"
      [] stage = "Do" -> "DoRet"
      [] stage = "ReadAll" -> "ReadAllRet"
      [] OTHER -> stage
Collaborators == {"Rewrite", "Query", "HTTPResolver", "NewRequest", "Do", "ReadAll", "Complete"}

\* C12: Resolve is a single attempt: within one call each collaborator is
\* invoked at most once, at most one request is built and issued, and once a
\* collaborator has failed nothing is tried again: only the release of the body,
\* the completer and the stop of the span timer follow the failure.
C12_SingleAttemptNoRetry ==
    \A c \in Calls :
      /\ \A op \in Collaborators : Count(log[c], op) <= 1
      /\ \A op \in {"RewriteRet", "QueryRet", "DoRet", "ReadAllRet", "CompleteRet"} :
           Count(log[c], op) <= 1
      /\ got[c].failed # "none" =>
           \E i \in DOMAIN log[c] :
             /\ log[c][i] = FailureEvent(got[c].failed)
             /\ \A j \in (i + 1)..Len(log[c]) :
                  log[c][j] \in {"Close", "Complete", "CompleteRet", "stop"}
C12_Witness ==
    \E c \in Calls : /\ pc[c] = "done" /\ got[c].failed = "Do"
                     /\ Count(log[c], "Do") = 1 /\ Count(log[c], "NewRequest") = 1

\* The completer's input of a call, from the call's own field and the results
\* of the call's own collaborators.
OwnInput(kind, q, g) ==
    CASE g.failed = "Rewrite" -> <<NilBytes, <<RewriteContext(q)>> \o g.e>>
      [] g.failed = "Query" -> <<NilBytes, <<ExecuteContext>> \o g.e>>
      [] g.failed \in {"HTTPResolver", "NewRequest", "Do"} -> <<NilBytes, g.e>>
      [] g.failed = "ReadAll" -> <<Bytes(SubSeq(g.raw.data, 1, g.failAt)), g.e>>
      [] OTHER -> <<g.raw, NilErr>>
\* The state of one call, but for the ctx the caller controls.
CallState(c) ==
    <<pc[c], query[c], stepCtx[c], dgQuery[c], resp[c], body[c], res[c], err[c],
      ret[c], span[c], log[c], got[c]>>
CallStateNext(c) ==
    <<pc'[c], query'[c], stepCtx'[c], dgQuery'[c], resp'[c], body'[c], res'[c], err'[c],
      ret'[c], span'[c], log'[c], got'[c]>>

\* C13: calls on one resolver are independent.  No step changes the
\* resolver's fields; a step of one call leaves the state of every other call
\* as it was; and after any interleaved step the completer's input of each call
\* is determined by that call's field and that call's collaborator results, and
\* the Resolved it returned by that call's completer result.
C13_CallsAreIndependent ==
    [][ /\ resolver' = resolver
        /\ \A c \in DOMAIN pc :
             /\ log'[c] = log[c] => CallStateNext(c) = CallState(c)
             /\ pc'[c] \in {"Complete", "done"} =>
                  <<res'[c], err'[c]>> = OwnInput(resolver.kind, query'[c], got'[c])
             /\ pc'[c] = "done" =>
                  /\ got'[c].completed \in Complete(resolver.resultCompleter, query'[c],
                                                    res'[c], err'[c])
                  /\ ret'[c] = Resolved(got'[c].completed[1], got'[c].completed[2])
      ]_vars
\* Two calls in flight at once, with different fields and different outcomes.
C13_Witness ==
    \E c, d \in DOMAIN pc :
      /\ c # d /\ query[c] # query[d]
      /\ pc[c] = "done" /\ pc[d] = "Complete"
      /\ Len(log[d]) > 2 /\ Len(log[c]) > Len(log[d])
      /\ got[c].failed = "none" /\ got[d].failed # "none"
      /\ res[c] # res[d] /\ err[c] # err[d]

\* C14: a store resolver built from the no-op rewriter and the no-op executor
\* hands (nil, nil) to the completer for every field: the nil native query of
\* the rewriter goes to the executor, which is called, and no error arises.
C14_NoOpPairGivesNilNil ==
    \A c \in Calls :
      (/\ resolver.kind = "queryResolver"
       /\ resolver.queryRewriter = NoOpQueryRewrite
       /\ resolver.queryExecutor = NoOpQueryExecution
       /\ pc[c] # "idle") =>
        /\ got[c].failed = "none"
        /\ pc[c] # "Rewrite" => (Has(log[c], "Query") /\ dgQuery[c] = NilQuery)
        /\ pc[c] \in {"Complete", "done"} =>
             (Has(log[c], "QueryRet") /\ res[c] = NilBytes /\ err[c] = NilErr)
C14_Witness ==
    \E c \in Calls : /\ resolver.kind = "queryResolver"
                     /\ resolver.queryRewriter = NoOpQueryRewrite
                     /\ resolver.queryExecutor = NoOpQueryExecution
                     /\ pc[c] = "done" /\ ResponseName(query[c]) = "G"
                     /\ res[c] = NilBytes /\ err[c] = NilErr

\* C15: the introspection executor returns the introspection of the field it
\* was built with, whatever native query it is given (nil included) and
\* whatever field the call resolves: two native queries get the same result.
C15_IntrospectionIgnoresInput ==
    resolver.queryExecutor.kind = "introspectionExecution" =>
      /\ \A d1, d2 \in GraphQueries, done \in BOOLEAN :
           Query(resolver.queryExecutor, done, d1) = Query(resolver.queryExecutor, done, d2)
      /\ \A c \in Calls :
           Has(log[c], "QueryRet") =>
             /\ <<got[c].raw, got[c].e>> = Introspect(resolver.queryExecutor.q)
             /\ <<res[c], err[c]>> = Introspect(resolver.queryExecutor.q)
C15_Witness ==
    \E c \in Calls : /\ resolver.queryExecutor = introspectionExecution(query[c])
                     /\ resolver.queryRewriter = FuncRewrite
                     /\ got[c].dgQ = NilQuery /\ got[c].failed = "none"
                     /\ pc[c] = "done"
                     /\ res[c] = Bytes(<<"schema", ResponseName(query[c])>>)
C15_WitnessOtherInput ==
    \E c \in Calls : /\ resolver.queryExecutor.kind = "introspectionExecution"
                     /\ resolver.queryExecutor.q # query[c]
                     /\ dgQuery[c] = "Q" /\ pc[c] = "done"
                     /\ res[c] = Introspect(resolver.queryExecutor.q)[1]

SpanName(kind) == IF kind = "queryResolver" THEN "resolveQuery" ELSE "resolveHTTPQuery"

\* C16: every Resolve call starts exactly one span timer, named for the kind
\* of its resolver, as its first step, and stops it exactly once: it is running
\* until the completer has returned and stopped when Resolve has returned,
\* whether the pipeline failed or not.
C16_SpanTimerStartedAndStoppedOnce ==
    \A c \in Calls :
      /\ pc[c] = "idle" => span[c] = NoSpan
      /\ pc[c] # "idle" =>
           /\ span[c].starts = 1
           /\ span[c].name = SpanName(resolver.kind)
           /\ log[c][1] = "SpanTimer"
           /\ Count(log[c], "SpanTimer") = 1
      /\ span[c].stops = (IF pc[c] = "done" THEN 1 ELSE 0)
      /\ Count(log[c], "stop") = span[c].stops
      /\ After(log[c], "CompleteRet", "stop")
C16_Witness ==
    \E c \in Calls : /\ resolver.kind = "httpResolver" /\ pc[c] = "done"
                     /\ got[c].failed = "ReadAll" /\ ret[c].Err # NilErr
                     /\ span[c] = [name |-> "resolveHTTPQuery", starts |-> 1, stops |-> 1]

\* C17: in the store resolver, when the rewriter succeeds the executor is
\* called with the very native query the rewriter returned (nil or not), and
\* when the executor succeeds too the completer receives the very bytes the
\* executor returned and a nil error.
C17_NativeQueryAndBytesPassThrough ==
    \A c \in Calls :
      resolver.kind = "queryResolver" =>
        /\ (Has(log[c], "RewriteRet") /\ got[c].failed # "Rewrite") =>
             (Has(log[c], "Query") /\ dgQuery[c] = got[c].dgQ)
        /\ Has(log[c], "Query") => got[c].failed # "Rewrite"
        /\ (Has(log[c], "QueryRet") /\ got[c].failed = "none") =>
             /\ pc[c] \in {"Complete", "done"}
             /\ res[c] = got[c].raw
             /\ err[c] = NilErr
C17_Witness ==
    \E c \in Calls : /\ resolver.kind = "queryResolver" /\ pc[c] = "done"
                     /\ got[c].dgQ = "Q" /\ dgQuery[c] = "Q"
                     /\ got[c].raw = Bytes(<<"o", "k">>) /\ res[c] = Bytes(<<"o", "k">>)
                     /\ err[c] = NilErr

\* C18: in the remote resolver, when building the request fails the HTTP
\* client is not called, and when the HTTP client fails no body is read or
\* closed; either way the completer is invoked with nil bytes and the error of
\* the step that failed.
C18_RequestAndTransportFailuresShortCircuit ==
    \A c \in Calls :
      resolver.kind = "httpResolver" =>
        /\ got[c].failed = "NewRequest" =>
             (~Has(log[c], "Do") /\ ~body[c].acquired)
        /\ got[c].failed = "Do" =>
             /\ ~Has(log[c], "ReadAll") /\ ~Has(log[c], "Close")
             /\ ~body[c].acquired /\ body[c].closes = 0
        /\ got[c].failed \in {"NewRequest", "Do"} =>
             /\ pc[c] \in {"Complete", "done"}
             /\ Has(log[c], "Complete")
             /\ res[c] = NilBytes
             /\ err[c] # NilErr
             /\ err[c] = got[c].e
C18_Witness ==
    \E c \in Calls : /\ resolver.kind = "httpResolver" /\ pc[c] = "done"
                     /\ got[c].failed = "Do" /\ Has(log[c], "DoRet")
                     /\ err[c] = NewErr("transport error")

\* C19: in the remote resolver, when reading the body of a response fails the
\* completer receives the bytes read before the failure (non-nil) with the read
\* error, and the body is closed before the completer is invoked; in the store
\* resolver a non-nil error always comes with a nil raw result.
C19_ReadFailureGivesPartialBytes ==
    \A c \in Calls :
      /\ (resolver.kind = "httpResolver" /\ got[c].failed = "ReadAll") =>
           /\ pc[c] \in {"Complete", "done"}
           /\ res[c] = Bytes(SubSeq(got[c].raw.data, 1, got[c].failAt))
           /\ ~res[c].isNil
           /\ err[c] = NewErr("read error")
           /\ body[c].closes = 1
           /\ After(log[c], "Close", "Complete")
      /\ (resolver.kind = "queryResolver" /\ err[c] # NilErr) => res[c] = NilBytes
C19_Witness ==
    \E c \in Calls : /\ resolver.kind = "httpResolver" /\ got[c].failed = "ReadAll"
                     /\ pc[c] = "Complete"
                     /\ got[c].raw = Bytes(<<"o", "k">>) /\ res[c] = Bytes(<<"o">>)
                     /\ err[c] # NilErr /\ body[c].closes = 1

\* C20: the remote resolver never calls the rewriter or the executor it was
\* built with: on every path its calls are the span timer, HTTPResolver(),
\* the building of the request, the HTTP client, the reading and closing of the
\* body and the completer, and the completer's input is determined by the field
\* and by what those returned.
C20_RemoteResolverIgnoresRewriterAndExecutor ==
    \A c \in Calls :
      resolver.kind = "httpResolver" =>
        /\ \A i \in DOMAIN log[c] :
             log[c][i] \in {"SpanTimer", "HTTPResolver", "NewRequest", "Do", "DoRet",
                            "ReadAll", "ReadAllRet", "Close", "Complete", "CompleteRet",
                            "stop"}
        /\ dgQuery[c] = NilQuery /\ got[c].dgQ = NilQuery
        /\ pc[c] \in {"Complete", "done"} =>
             <<res[c], err[c]>> = OwnInput(resolver.kind, query[c], got[c])
C20_Witness ==
    \E c \in Calls : /\ resolver.kind = "httpResolver" /\ pc[c] = "done"
                     /\ resolver.queryRewriter = FuncRewrite
                     /\ resolver.queryExecutor = FuncExecution
                     /\ got[c].failed = "none" /\ Len(res[c].data) = MaxBodyLen

====
